---- MODULE Spec2Model ----
(***************************************************************************)
(* Model of the kvstore quorum coordinator (internal/node), the quorum     *)
(* engine (internal/quorum), the reconciler (internal/repair), the local   *)
(* store (internal/storage) and the vector clock (internal/clock).         *)
(*                                                                         *)
(* One key is replicated on a static three-node ring.  Client requests     *)
(* (Put, Get, Delete) arrive at a coordinator, fan out one per-replica     *)
(* operation to every node of the preference list and return when all of   *)
(* them have completed or the caller's context is done.                    *)
(***************************************************************************)
EXTENDS Integers, Sequences, FiniteSets, TLC

(***************************************************************************)
(* Bounds of the model.  Each specification fixes, in its initial state,   *)
(* how many client requests are issued, how many run at the same time and  *)
(* how many replica RPC errors and context cancellations occur.            *)
(***************************************************************************)
MaxReqs == 2        \* Spec: faults and concurrent requests
MaxInflight == 2
MaxFailures == 2
MaxReqsSeq == 4     \* SpecSeq: one client at a time, no failure
MaxReqsRaw == 3     \* SpecRaw: one client at a time, with failures
MaxFailuresRaw == 2
MaxReqsStale == 4   \* SpecStale: one client at a time, R = W = 2
MaxFailuresStale == 1
MaxCounter == 2      \* SpecStore: largest counter of a clock
MaxIncarnation == 3  \* SpecGossip: largest incarnation number
MaxGossip == 1       \* SpecGossip: most records in one gossip message
MaxVnodes == 2       \* SpecRing: largest vnodesPerNode of a ring
MaxK == 3            \* SpecRing: longest preference list asked for
MaxValues == 3       \* SpecReconcile: longest list of versions
MaxReqsValid == 2    \* SpecValidation: calls made
MaxRequired == 4     \* SpecValidation: largest quorum asked for

(***************************************************************************)
(* Program constants.                                                      *)
(***************************************************************************)
DefaultRF == 3
DefaultR == 2
DefaultW == 2

Nodes == {"n1", "n2", "n3"}
Coordinators == {"n1", "n2"}
Keys == {"k"}
ConsistencyLevels == {0}
\* The --r and --w flags the nodes are started with.
QuorumConfigs == {<<2, 2>>, <<1, 3>>, <<3, 1>>, <<1, 1>>}

VARIABLES
    store,      \* store[n]: the entry node n holds for the key
    reqs,       \* the client requests issued so far, in order of arrival
    failures,   \* replica RPC errors and context cancellations so far
    defaultR,   \* Server.defaultR
    defaultW,   \* Server.defaultW
    limits,     \* the bounds of this behaviour
    membership, \* the gossip.Membership of node n1
    rings,      \* ring.Ring objects built from the same hash function
    clocks,     \* two clock.VectorClock values and the last call on them
    versions    \* the arguments and the result of a call of repair.Reconcile

vars == <<store, reqs, failures, defaultR, defaultW, limits, membership, rings,
          clocks, versions>>
pure == <<clocks, versions>>
conf == <<defaultR, defaultW, limits, membership, rings, pure>>
quorums == <<defaultR, defaultW, limits>>

(***************************************************************************)
(* Vector clocks: maps from node id to counter; a missing id reads as 0.   *)
(***************************************************************************)
New == [id \in {} |-> 0]

Get(vc, nodeID) == IF nodeID \in DOMAIN vc THEN vc[nodeID] ELSE 0

Increment(vc, nodeID) ==
    [id \in DOMAIN vc \cup {nodeID} |->
        IF id = nodeID THEN Get(vc, nodeID) + 1 ELSE vc[id]]

\* A merge that takes every counter of the other clock as it is.
MergeOverwriting(vc, other) ==
    [id \in DOMAIN vc \cup DOMAIN other |->
        IF id \in DOMAIN other THEN other[id] ELSE vc[id]]

Merge(vc, other) ==
    LET raised == {id \in DOMAIN other : Get(vc, id) < other[id]}
    IN  [id \in DOMAIN vc \cup raised |->
            IF id \in raised THEN other[id] ELSE vc[id]]

Copy(vc) == [id \in DOMAIN vc |-> vc[id]]

Set(vc, nodeID, value) ==
    [id \in DOMAIN vc \cup {nodeID} |-> IF id = nodeID THEN value ELSE vc[id]]

Equal(vc, other) ==
    /\ Cardinality(DOMAIN vc) = Cardinality(DOMAIN other)
    /\ \A id \in DOMAIN vc : Get(other, id) = vc[id]

Compare(vc, other) ==
    IF Equal(vc, other) THEN "Equal"
    ELSE LET allNodes == DOMAIN vc \cup DOMAIN other
             thisLess == \E id \in allNodes : Get(vc, id) < Get(other, id)
             thisGreater == \E id \in allNodes : Get(vc, id) > Get(other, id)
         IN  IF thisLess /\ ~thisGreater THEN "Before"
             ELSE IF thisGreater /\ ~thisLess THEN "After"
             ELSE "Concurrent"

(***************************************************************************)
(* Optional values: a nil clock, a nil protobuf message.                   *)
(***************************************************************************)
NilVC == [has |-> FALSE, vc |-> New]
SomeVC(vc) == [has |-> TRUE, vc |-> vc]

NilPb == [has |-> FALSE, entries |-> {}]

\* The wire form of a clock is a list of (node_id, counter) entries.
protoToVectorClock(pb) ==
    IF ~pb.has THEN NilVC
    ELSE SomeVC([id \in {e[1] : e \in pb.entries} |->
                    (CHOOSE e \in pb.entries : e[1] = id)[2]])

vectorClockToProto(vc) ==
    [has |-> TRUE, entries |-> {<<id, vc[id]>> : id \in DOMAIN vc}]

(***************************************************************************)
(* Local store, one entry per key (the model follows a single key).        *)
(* ExpiresAt is nil in every entry the store writes, so no entry expires.  *)
(***************************************************************************)
NoValue == 0
NoEntry == [exists |-> FALSE, value |-> NoValue, version |-> New, deleted |-> FALSE]

StoreGet(entry) ==
    IF ~entry.exists THEN NoEntry
    ELSE [exists |-> TRUE, value |-> entry.value,
          version |-> Copy(entry.version), deleted |-> entry.deleted]

\* StorePut with the caller's version dropped: the clock starts from New.
StorePutDroppingVersion(entry, nodeID, value, version, deleted) ==
    LET merged == IF entry.exists THEN Merge(New, entry.version) ELSE New
        newVersion == Increment(merged, nodeID)
    IN  [exists |-> TRUE,
         value |-> IF deleted THEN NoValue ELSE value,
         version |-> newVersion,
         deleted |-> deleted]

\* StorePut that does not merge the clock of the entry it replaces.
StorePutNoMerge(entry, nodeID, value, version, deleted) ==
    LET start == IF ~version.has THEN New ELSE Copy(version.vc)
        newVersion == Increment(start, nodeID)
    IN  [exists |-> TRUE,
         value |-> IF deleted THEN NoValue ELSE value,
         version |-> newVersion,
         deleted |-> deleted]

StorePut(entry, nodeID, value, version, deleted) ==
    LET start == IF ~version.has THEN New ELSE Copy(version.vc)
        merged == IF entry.exists THEN Merge(start, entry.version) ELSE start
        newVersion == Increment(merged, nodeID)
    IN  [exists |-> TRUE,
         value |-> IF deleted THEN NoValue ELSE value,
         version |-> newVersion,
         deleted |-> deleted]

\* PutRepair that overwrites whatever is stored.
StorePutRepairAlways(entry, value, version, deleted) ==
    IF ~version.has THEN entry
    ELSE [exists |-> TRUE,
          value |-> IF deleted THEN NoValue ELSE value,
          version |-> Copy(version.vc),
          deleted |-> deleted]

\* PutRepair that also overwrites an entry concurrent to the incoming version.
StorePutRepairConcurrent(entry, value, version, deleted) ==
    IF ~version.has THEN entry
    ELSE IF entry.exists
            /\ Compare(version.vc, entry.version) \notin {"After", "Equal", "Concurrent"}
         THEN entry
    ELSE [exists |-> TRUE,
          value |-> IF deleted THEN NoValue ELSE value,
          version |-> Copy(version.vc),
          deleted |-> deleted]

\* The error PutRepair returns ("" is nil).
PutRepairError(version) ==
    IF ~version.has THEN "repair requires non-nil version" ELSE ""

\* The entry after PutRepair; a nil version is an error and changes nothing.
StorePutRepair(entry, value, version, deleted) ==
    IF ~version.has THEN entry
    ELSE IF entry.exists
            /\ Compare(version.vc, entry.version) \notin {"After", "Equal"}
         THEN entry
    ELSE [exists |-> TRUE,
          value |-> IF deleted THEN NoValue ELSE value,
          version |-> Copy(version.vc),
          deleted |-> deleted]

\* Delete that stores the merged clock without incrementing it.
StoreDeleteNoIncrement(entry, nodeID, version) ==
    LET start == IF ~version.has THEN New ELSE Copy(version.vc)
        merged == IF entry.exists THEN Merge(start, entry.version) ELSE start
    IN  [exists |-> TRUE, value |-> NoValue, version |-> merged, deleted |-> TRUE]

\* The entry after Delete: a tombstone under the merged, incremented clock.
StoreDelete(entry, nodeID, version) ==
    LET start == IF ~version.has THEN New ELSE Copy(version.vc)
        merged == IF entry.exists THEN Merge(start, entry.version) ELSE start
    IN  [exists |-> TRUE, value |-> NoValue,
         version |-> Increment(merged, nodeID), deleted |-> TRUE]

(***************************************************************************)
(* Internal replica surface.                                               *)
(***************************************************************************)
\* The replica's entry after ReplicaPut(req) on a non-empty key.
ReplicaPut(entry, nodeID, value, pbVersion, deleted, isRepair) ==
    LET version == protoToVectorClock(pbVersion)
    IN  IF isRepair THEN StorePutRepair(entry, value, version, deleted)
        ELSE StorePut(entry, nodeID, value, version, deleted)

NoPbValue == [value |-> NoValue, version |-> NilPb, deleted |-> FALSE]

PbValue(value, vc, deleted) ==
    [value |-> value, version |-> vectorClockToProto(vc), deleted |-> deleted]

\* The reply of ReplicaGet on a non-empty key.
ReplicaGet(entry) ==
    LET vv == StoreGet(entry)
    IN  IF ~vv.exists THEN [status |-> "NOT_FOUND", value |-> NoPbValue]
        ELSE [status |-> "SUCCESS",
              value |-> PbValue(vv.value, vv.version, vv.deleted)]

(***************************************************************************)
(* Placement: a static ring of the three nodes; the preference list of the *)
(* key walks it from the key's owner.                                      *)
(***************************************************************************)
RingOrder == <<"n1", "n2", "n3">>

Min(a, b) == IF a < b THEN a ELSE b

PreferenceList(key, k) ==
    IF k <= 0 THEN <<>> ELSE SubSeq(RingOrder, 1, Min(k, Len(RingOrder)))

GetReplicasForKey(key, replicationFactor) ==
    PreferenceList(key, IF replicationFactor <= 0 THEN 3 ELSE replicationFactor)

(***************************************************************************)
(* Quorum engine (DoWrite, DoRead): validation and the final decision.     *)
(***************************************************************************)
EffectiveQuorum(required, nReplicas) ==
    IF required <= 0 THEN (nReplicas \div 2) + 1 ELSE required

\* A validation that only refuses an empty replica list.
QuorumValidateNonEmpty(nReplicas, required) ==
    IF nReplicas = 0 THEN "no replicas provided" ELSE ""

\* "" when the call may fan out, else the error the call returns at once.
QuorumValidate(nReplicas, required) ==
    IF nReplicas = 0 THEN "no replicas provided"
    ELSE IF EffectiveQuorum(required, nReplicas) > nReplicas
         THEN "quorum exceeds replica count"
    ELSE ""

\* The decision taken once every per-replica operation has completed.
QuorumMet(count, required) == count >= required

\* A per-replica read counts as a response only when it returned no error;
\* readFn turns a replica's NOT_FOUND into the error "not found".
ReadCounts(outcome) == outcome = "ok"

(***************************************************************************)
(* Reconciler.                                                             *)
(***************************************************************************)
PlaceholderID(i) == "replica-" \o ToString(i)

RECURSIVE ReconcileFrom(_, _, _, _, _)
ReconcileFrom(values, replicaIDs, i, winners, stale) ==
    IF i > Len(values) THEN [Winners |-> winners, Stale |-> stale]
    ELSE LET v1 == values[i]
             isDominated ==
                 \E j \in 1..Len(values) :
                     j # i /\ Compare(v1.version, values[j].version) = "Before"
             isDuplicate ==
                 \E w \in 1..Len(winners) : Equal(v1.version, winners[w].version)
         IN  IF isDominated
             THEN ReconcileFrom(values, replicaIDs, i + 1, winners,
                      [id \in DOMAIN stale \cup {replicaIDs[i]} |->
                          IF id = replicaIDs[i] THEN v1 ELSE stale[id]])
             ELSE IF isDuplicate
             THEN ReconcileFrom(values, replicaIDs, i + 1, winners, stale)
             ELSE ReconcileFrom(values, replicaIDs, i + 1, Append(winners, v1), stale)

Reconcile(values, replicaIDs) ==
    IF Len(values) = 0 THEN [Winners |-> <<>>, Stale |-> [id \in {} |-> 0]]
    ELSE LET ids == IF Len(replicaIDs) # Len(values)
                    THEN [i \in 1..Len(values) |-> PlaceholderID(i - 1)]
                    ELSE replicaIDs
         IN  ReconcileFrom(values, ids, 1, <<>>, [id \in {} |-> 0])

IsNotFound(r) == Len(r.Winners) = 0
IsResolved(r) == Len(r.Winners) = 1
HasConflict(r) == Len(r.Winners) > 1

(***************************************************************************)
(* Client surface: responses.                                              *)
(***************************************************************************)
NoResp ==
    [status |-> "NONE", version |-> NilPb, hasValue |-> FALSE,
     value |-> NoPbValue, conflicts |-> <<>>, error |-> ""]

ErrorResp(msg) == [NoResp EXCEPT !.status = "ERROR", !.error = msg]

\* Put and Delete after DoWrite returned.
WriteReply(success, newVersion) ==
    IF ~success THEN ErrorResp("quorum not met")
    ELSE [NoResp EXCEPT !.status = "SUCCESS",
                        !.version = vectorClockToProto(newVersion)]

\* The replica id Get pairs with the i-th collected value (1-based here).
IndexReplicaID(i, replicas) ==
    IF i <= Len(replicas) THEN replicas[i] ELSE PlaceholderID(i - 1)

\* Get after DoRead returned success with the collected values.
GetReply(values, replicas) ==
    IF Len(values) = 0 THEN [NoResp EXCEPT !.status = "NOT_FOUND"]
    ELSE LET replicaIDs == [i \in 1..Len(values) |-> IndexReplicaID(i, replicas)]
             rec == Reconcile(values, replicaIDs)
             pb(w) == PbValue(w.value, w.version, w.deleted)
         IN  IF IsNotFound(rec) THEN [NoResp EXCEPT !.status = "NOT_FOUND"]
             ELSE IF IsResolved(rec)
             THEN IF rec.Winners[1].deleted
                  THEN [NoResp EXCEPT !.status = "NOT_FOUND"]
                  ELSE [NoResp EXCEPT !.status = "SUCCESS",
                                      !.hasValue = TRUE,
                                      !.value = pb(rec.Winners[1])]
             ELSE [NoResp EXCEPT !.status = "SUCCESS",
                       !.conflicts = [w \in 1..Len(rec.Winners) |-> pb(rec.Winners[w])]]

ReadReply(success, values, replicas) ==
    IF ~success THEN ErrorResp("quorum not met") ELSE GetReply(values, replicas)

(***************************************************************************)
(* Client requests.  reqs is the log of the requests issued so far; a      *)
(* request is "running" from its fan-out until its handler returns.        *)
(***************************************************************************)
replicationFactor == DefaultRF

Range(f) == {f[x] : x \in DOMAIN f}

IsWrite(r) == r.op \in {"Put", "Delete"}

Running == {i \in 1..Len(reqs) : reqs[i].pc = "running"}
ReturnedReqs == {i \in 1..Len(reqs) : reqs[i].pc = "returned"}

CanStart == Len(reqs) < limits.reqs /\ Cardinality(Running) < limits.inflight

NoResult == [success |-> FALSE, count |-> 0]

\* rstate[n]: the per-replica operation on n ("pending" until it completes);
\* stored[n]: the version n stored when it applied this write;
\* repairs: the replicas the handler handed to the read repairer;
\* acks, responses, values: the counters and the list DoWrite/DoRead collect;
\* result: what DoWrite/DoRead returned; resp: the reply to the client;
\* after: the requests that had returned when this one arrived.
Request(op, c, key, cons, ctx, value, newVersion, required, replicas) ==
    [op |-> op, coord |-> c, key |-> key, cons |-> cons, ctx |-> ctx,
     value |-> value, newVersion |-> newVersion, required |-> required,
     replicas |-> replicas,
     rstate |-> [n \in Range(replicas) |-> "pending"],
     stored |-> [n \in Range(replicas) |-> New],
     acks |-> 0, responses |-> 0, values |-> <<>>,
     pc |-> "running", cancelled |-> FALSE,
     result |-> NoResult, resp |-> NoResp,
     repairs |-> {},
     after |-> ReturnedReqs]

Rejected(r, msg) ==
    [r EXCEPT !.pc = "returned", !.resp = ErrorResp(msg),
              !.rstate = [n \in {} |-> "pending"],
              !.stored = [n \in {} |-> New]]

\* The version a client saves from a Get response: the pointwise max of the
\* versions of the value and of every sibling.
RECURSIVE MergeVersions(_, _)
MergeVersions(pbValues, i) ==
    IF i > Len(pbValues) THEN New
    ELSE Merge(MergeVersions(pbValues, i + 1),
               protoToVectorClock(pbValues[i].version).vc)

ContextOf(resp) ==
    vectorClockToProto(
        MergeVersions(IF resp.hasValue THEN <<resp.value>> ELSE resp.conflicts, 1))

ClientContexts ==
    {NilPb} \cup
    {ContextOf(reqs[j].resp) :
        j \in {i \in ReturnedReqs : reqs[i].op = "Get" /\ reqs[i].resp.status = "SUCCESS"}}

\* Server.Put and Server.Delete up to the fan-out of DoWrite.
WriteRequest(op, c, key, cons, ctx, value) ==
    LET rf == IF replicationFactor <= 0 THEN 3 ELSE replicationFactor
        requiredW == IF cons <= 0 THEN defaultW ELSE cons
        replicas == GetReplicasForKey(key, rf)
        base == IF ctx.has THEN protoToVectorClock(ctx).vc ELSE New
        newVersion == Increment(base, c)
        check == QuorumValidate(Len(replicas), requiredW)
        r == Request(op, c, key, cons, ctx, value, newVersion,
                     EffectiveQuorum(requiredW, Len(replicas)), replicas)
    IN  IF key = "" THEN Rejected(r, "key cannot be empty")
        ELSE IF Len(replicas) = 0 THEN Rejected(r, "no replicas available")
        ELSE IF check # "" THEN Rejected(r, check)
        ELSE r

\* Server.Get up to the fan-out of DoRead.
ReadRequest(c, key, cons) ==
    LET rf == IF replicationFactor <= 0 THEN 3 ELSE replicationFactor
        requiredR == IF cons <= 0 THEN defaultR ELSE cons
        replicas == GetReplicasForKey(key, rf)
        check == QuorumValidate(Len(replicas), requiredR)
        r == Request("Get", c, key, cons, NilPb, NoValue, New,
                     EffectiveQuorum(requiredR, Len(replicas)), replicas)
    IN  IF key = "" THEN Rejected(r, "key cannot be empty")
        ELSE IF Len(replicas) = 0 THEN Rejected(r, "no replicas available")
        ELSE IF check # "" THEN Rejected(r, check)
        ELSE r

\* The cluster after start-up: empty stores, no request yet.
Cluster(configs, coords, maxReqs, maxInflight, maxFailures) ==
    /\ store = [n \in Nodes |-> NoEntry]
    /\ reqs = <<>>
    /\ failures = 0
    /\ \E q \in configs : defaultR = q[1] /\ defaultW = q[2]
    /\ limits = [reqs |-> maxReqs, inflight |-> maxInflight,
                 failures |-> maxFailures, coords |-> coords]

\* Static membership: the nodes are started without seeds, so no node has a
\* gossip.Membership, and the ring is the one built at start-up.
NoMembership == [enabled |-> FALSE]
NoRings == <<>>

\* No clock and no list of versions is under test.
NoClocks == <<>>
NoVersions == <<>>

Started(configs, coords, maxReqs, maxInflight, maxFailures) ==
    /\ Cluster(configs, coords, maxReqs, maxInflight, maxFailures)
    /\ membership = NoMembership
    /\ rings = NoRings
    /\ clocks = NoClocks
    /\ versions = NoVersions

Init == Started(QuorumConfigs, Coordinators, MaxReqs, MaxInflight, MaxFailures)

PutStart(c, key, cons, ctx) ==
    /\ CanStart
    /\ reqs' = Append(reqs, WriteRequest("Put", c, key, cons, ctx, Len(reqs) + 1))
    /\ UNCHANGED <<store, failures, conf>>

DeleteStart(c, key, cons, ctx) ==
    /\ CanStart
    /\ reqs' = Append(reqs, WriteRequest("Delete", c, key, cons, ctx, NoValue))
    /\ UNCHANGED <<store, failures, conf>>

GetStart(c, key, cons) ==
    /\ CanStart
    /\ reqs' = Append(reqs, ReadRequest(c, key, cons))
    /\ UNCHANGED <<store, failures, conf>>

Pending(i, n) ==
    /\ i \in 1..Len(reqs)
    /\ n \in DOMAIN reqs[i].rstate
    /\ reqs[i].rstate[n] = "pending"

\* The request once replica n has applied its write and stored entry; the
\* ack is counted unless DoWrite has already returned.
Acked(r, n, entry) ==
    [r EXCEPT !.rstate[n] = "ok", !.stored[n] = entry.version,
              !.acks = IF r.pc = "running" THEN @ + 1 ELSE @]

\* writeFn on the coordinator itself: the local store's Put.
WriteLocal(i) ==
    LET r == reqs[i]
        entry == StorePut(store[r.coord], r.coord, r.value,
                          SomeVC(r.newVersion), r.op = "Delete")
    IN  /\ i \in 1..Len(reqs)
        /\ IsWrite(r)
        /\ Pending(i, r.coord)
        /\ store' = [store EXCEPT ![r.coord] = entry]
        /\ reqs' = [reqs EXCEPT ![i] = Acked(r, r.coord, entry)]
        /\ UNCHANGED <<failures, conf>>

\* writeFn on a peer: the ReplicaPut RPC is served and answers SUCCESS.
WriteRemote(i, n) ==
    LET r == reqs[i]
        entry == ReplicaPut(store[n], n, r.value, vectorClockToProto(r.newVersion),
                            r.op = "Delete", FALSE)
    IN  /\ i \in 1..Len(reqs)
        /\ IsWrite(r)
        /\ n # r.coord
        /\ Pending(i, n)
        /\ store' = [store EXCEPT ![n] = entry]
        /\ reqs' = [reqs EXCEPT ![i] = Acked(r, n, entry)]
        /\ UNCHANGED <<failures, conf>>

\* writeFn on a peer: the RPC fails (peer down, timeout); nothing is applied.
WriteFail(i, n) ==
    LET r == reqs[i] IN
    /\ i \in 1..Len(reqs)
    /\ IsWrite(r)
    /\ n # r.coord
    /\ Pending(i, n)
    /\ failures < limits.failures
    /\ reqs' = [reqs EXCEPT ![i].rstate[n] = "err"]
    /\ failures' = failures + 1
    /\ UNCHANGED <<store, conf>>

\* DoWrite that returns as soon as the acks reach the quorum.
WriteDoneEarly(i) ==
    LET r == reqs[i]
        success == QuorumMet(r.acks, r.required)
    IN  /\ i \in Running
        /\ IsWrite(r)
        /\ success \/ \A n \in DOMAIN r.rstate : r.rstate[n] # "pending"
        /\ reqs' = [reqs EXCEPT ![i].pc = "returned",
                                ![i].result = [success |-> success, count |-> r.acks],
                                ![i].resp = WriteReply(success, r.newVersion)]
        /\ UNCHANGED <<store, failures, conf>>

\* DoWrite: every per-replica operation has completed.
WriteDone(i) ==
    LET r == reqs[i]
        success == QuorumMet(r.acks, r.required)
    IN  /\ i \in Running
        /\ IsWrite(r)
        /\ \A n \in DOMAIN r.rstate : r.rstate[n] # "pending"
        /\ reqs' = [reqs EXCEPT ![i].pc = "returned",
                                ![i].result = [success |-> success, count |-> r.acks],
                                ![i].resp = WriteReply(success, r.newVersion)]
        /\ UNCHANGED <<store, failures, conf>>

ReadValue(pb) ==
    [value |-> pb.value, version |-> protoToVectorClock(pb.version).vc,
     deleted |-> pb.deleted]

\* The outcome of one per-replica read given the replica's reply.
ReadOutcome(reply) == IF reply.status = "SUCCESS" THEN "ok" ELSE "notfound"

Collect(r, n, reply) ==
    LET outcome == ReadOutcome(reply) IN
    IF ReadCounts(outcome)
    THEN [r EXCEPT !.rstate[n] = outcome, !.responses = @ + 1,
                   !.values = Append(@, ReadValue(reply.value))]
    ELSE [r EXCEPT !.rstate[n] = outcome]

\* readFn on the coordinator itself and on a peer whose ReplicaGet is served.
ReadReplica(i, n) ==
    LET r == reqs[i] IN
    /\ i \in Running
    /\ r.op = "Get"
    /\ Pending(i, n)
    /\ reqs' = [reqs EXCEPT ![i] = Collect(r, n, ReplicaGet(store[n]))]
    /\ UNCHANGED <<store, failures, conf>>

\* readFn on a peer: the RPC fails.
ReadFail(i, n) ==
    LET r == reqs[i] IN
    /\ i \in Running
    /\ r.op = "Get"
    /\ n # r.coord
    /\ Pending(i, n)
    /\ failures < limits.failures
    /\ reqs' = [reqs EXCEPT ![i].rstate[n] = "err"]
    /\ failures' = failures + 1
    /\ UNCHANGED <<store, conf>>

\* DoRead: every per-replica operation has completed.
ReadDone(i) ==
    LET r == reqs[i]
        success == QuorumMet(r.responses, r.required)
    IN  /\ i \in Running
        /\ r.op = "Get"
        /\ \A n \in DOMAIN r.rstate : r.rstate[n] # "pending"
        /\ reqs' = [reqs EXCEPT ![i].pc = "returned",
                                ![i].result = [success |-> success, count |-> r.responses],
                                ![i].resp = ReadReply(success, r.values, r.replicas)]
        /\ UNCHANGED <<store, failures, conf>>

\* The reply of Put, Get and Delete when the engine returned on ctx.Done().
CancelReply == ErrorResp("context cancelled")

\* DoWrite and DoRead: the caller's context is done before (or as) the wait
\* group finishes; the call returns failure whatever has been counted.
CtxDone(i) ==
    LET r == reqs[i] IN
    /\ i \in Running
    /\ failures < limits.failures
    /\ reqs' = [reqs EXCEPT ![i].pc = "returned", ![i].cancelled = TRUE,
                            ![i].result = [success |-> FALSE,
                                           count |-> IF IsWrite(r) THEN r.acks
                                                     ELSE r.responses],
                            ![i].resp = CancelReply]
    /\ failures' = failures + 1
    /\ UNCHANGED <<store, conf>>

Issue ==
    \/ \E c \in limits.coords, key \in Keys, cons \in ConsistencyLevels,
          ctx \in ClientContexts : PutStart(c, key, cons, ctx)
    \/ \E c \in limits.coords, key \in Keys, cons \in ConsistencyLevels,
          ctx \in ClientContexts : DeleteStart(c, key, cons, ctx)
    \/ \E c \in limits.coords, key \in Keys, cons \in ConsistencyLevels :
          GetStart(c, key, cons)

Serve ==
    \/ \E i \in 1..Len(reqs) : WriteLocal(i)
    \/ \E i \in 1..Len(reqs), n \in Nodes : WriteRemote(i, n)
    \/ \E i \in 1..Len(reqs) : WriteDone(i)
    \/ \E i \in 1..Len(reqs), n \in Nodes : ReadReplica(i, n)
    \/ \E i \in 1..Len(reqs) : ReadDone(i)

RpcFail ==
    \/ \E i \in 1..Len(reqs), n \in Nodes : WriteFail(i, n)
    \/ \E i \in 1..Len(reqs), n \in Nodes : ReadFail(i, n)

Cancel == \E i \in 1..Len(reqs) : CtxDone(i)

Next == Issue \/ Serve \/ RpcFail \/ Cancel

\* Concurrent clients, replica failures and cancellations, every quorum setting.
Spec == Init /\ [][Next]_vars

\* Clients of n1 with R = W = 2, with the scheduling the runtime gives: a goroutine that can run does
\* run, and a replica RPC ends, served or failed, at the latest when the
\* per-replica timeout of its context expires.
InitFair == Started({<<DefaultR, DefaultW>>}, {"n1"}, MaxReqs, MaxInflight, MaxFailures)
SpecFair == InitFair /\ [][Next]_vars /\ WF_vars(Serve)

\* One client at a time on a healthy cluster with R = W = 2.
InitSeq == Started({<<DefaultR, DefaultW>>}, Coordinators, MaxReqsSeq, 1, 0)
NextSeq == Issue \/ Serve
SpecSeq == InitSeq /\ [][NextSeq]_vars

\* One client at a time, replica failures, every quorum setting.
InitRaw == Started(QuorumConfigs, Coordinators, MaxReqsRaw, 1, MaxFailuresRaw)
NextRaw == Issue \/ Serve \/ RpcFail
SpecRaw == InitRaw /\ [][NextRaw]_vars

\* One client of n1 at a time with R = W = 2, long enough for a replica to fall
\* behind a write made with the context of an earlier Get.
InitStale == Started({<<DefaultR, DefaultW>>}, {"n1"}, MaxReqsStale, 1, MaxFailuresStale)
SpecStale == InitStale /\ [][NextRaw]_vars

(***************************************************************************)
(* Argument validation: client requests with any key and consistency       *)
(* level, DoWrite and DoRead called with any replica list and quorum, and  *)
(* the internal replica surface called with any key.                       *)
(***************************************************************************)
\* DoWrite (op Put) and DoRead (op Get) called by coordinator c.
DoStart(op, c, replicas, required) ==
    LET check == QuorumValidate(Len(replicas), required)
        r == Request(op, c, "k", required, NilPb,
                     IF op = "Put" THEN Len(reqs) + 1 ELSE NoValue,
                     Increment(New, c),
                     EffectiveQuorum(required, Len(replicas)), replicas)
    IN  /\ CanStart
        /\ reqs' = Append(reqs, IF check # "" THEN Rejected(r, check) ELSE r)
        /\ UNCHANGED <<store, failures, conf>>

\* A handler of the internal surface that serves the empty key as well.
ReplicaEntryAnyKey(entry, nodeID, op, key, value) ==
    CASE op = "ReplicaPut" -> ReplicaPut(entry, nodeID, value, NilPb, FALSE, FALSE)
      [] op = "ReplicaDelete" -> StoreDelete(entry, nodeID, protoToVectorClock(NilPb))
      [] op = "ReplicaGet" -> entry

\* The replica's entry after ReplicaPut, ReplicaDelete or ReplicaGet.
ReplicaEntry(entry, nodeID, op, key, value) ==
    IF key = "" THEN entry
    ELSE CASE op = "ReplicaPut" -> ReplicaPut(entry, nodeID, value, NilPb, FALSE, FALSE)
           [] op = "ReplicaDelete" -> StoreDelete(entry, nodeID, protoToVectorClock(NilPb))
           [] op = "ReplicaGet" -> entry

\* One call of the internal surface of node n, logged in reqs with its reply.
ReplicaCall(n, op, key) ==
    LET r == Request(op, n, key, 0, NilPb, Len(reqs) + 1, New, 0, <<>>)
        reply == IF key = "" THEN ErrorResp("key cannot be empty")
                 ELSE IF op = "ReplicaGet"
                 THEN [NoResp EXCEPT !.status = ReplicaGet(store[n]).status,
                                     !.value = ReplicaGet(store[n]).value]
                 ELSE [NoResp EXCEPT !.status = "SUCCESS"]
    IN  /\ CanStart
        /\ store' = [store EXCEPT ![n] = ReplicaEntry(store[n], n, op, key, r.value)]
        /\ reqs' = Append(reqs, [r EXCEPT !.pc = "returned", !.resp = reply])
        /\ UNCHANGED <<failures, conf>>

InitValidation == Started({<<DefaultR, DefaultW>>}, {"n1"}, MaxReqsValid, 1, 0)

NextValidation ==
    \/ \E key \in Keys \cup {""}, cons \in 0..MaxRequired :
          \/ PutStart("n1", key, cons, NilPb)
          \/ DeleteStart("n1", key, cons, NilPb)
          \/ GetStart("n1", key, cons)
    \/ \E op \in {"Put", "Get"}, n \in 0..Len(RingOrder), required \in 0..MaxRequired :
          DoStart(op, "n1", SubSeq(RingOrder, 1, n), required)
    \/ \E n \in Nodes, op \in {"ReplicaPut", "ReplicaGet", "ReplicaDelete"},
          key \in Keys \cup {""} : ReplicaCall(n, op, key)
    \/ Serve

SpecValidation == InitValidation /\ [][NextValidation]_vars

(***************************************************************************)
(* One node's local store called directly: put, delete and put_repair in   *)
(* any order with any version of bounded counters.                         *)
(***************************************************************************)
ClockIDs == {"n1", "n2"}

BoundedVCs == UNION {[ids -> 0..MaxCounter] : ids \in SUBSET ClockIDs}

StoreVersions == {NilVC} \cup {SomeVC(vc) : vc \in BoundedVCs}

WithinBound(entry) == \A id \in DOMAIN entry.version : entry.version[id] <= MaxCounter

\* One call served by n's store; reqs keeps the last call: its name, its
\* arguments, the entry it found, the clock it returned (put, delete) and the
\* error it returned (put_repair).
StoreCall(n, op, value, version, deleted, entry, ret, err) ==
    /\ WithinBound(entry)
    /\ store' = [store EXCEPT ![n] = entry]
    /\ reqs' = <<[op |-> op, node |-> n, value |-> value, version |-> version,
                  deleted |-> deleted, before |-> store[n], ret |-> ret, err |-> err]>>
    /\ UNCHANGED <<failures, conf>>

CallPut(n, value, version, deleted) ==
    LET entry == StorePut(store[n], n, value, version, deleted)
    IN  StoreCall(n, "put", value, version, deleted, entry, Copy(entry.version), "")

CallDelete(n, version) ==
    LET entry == StoreDelete(store[n], n, version)
    IN  StoreCall(n, "delete", NoValue, version, TRUE, entry, Copy(entry.version), "")

CallPutRepair(n, value, version, deleted) ==
    StoreCall(n, "put_repair", value, version, deleted,
              StorePutRepair(store[n], value, version, deleted),
              New, PutRepairError(version))

InitStore == Started({<<DefaultR, DefaultW>>}, {"n1"}, 0, 0, 0)

NextStore ==
    \/ \E n \in limits.coords, value \in {1, 2}, version \in StoreVersions,
          deleted \in BOOLEAN : CallPut(n, value, version, deleted)
    \/ \E n \in limits.coords, version \in StoreVersions : CallDelete(n, version)
    \/ \E n \in limits.coords, value \in {1, 2}, version \in StoreVersions,
          deleted \in BOOLEAN : CallPutRepair(n, value, version, deleted)

SpecStore == InitStore /\ [][NextStore]_vars

(***************************************************************************)
(* Gossip membership of node n1.  LastSeen is left out: a Suspect member   *)
(* may time out at any moment.  Every method takes m.mu; mu = "blocked"    *)
(* once a goroutine waits for a lock it can never get.                     *)
(***************************************************************************)
Statuses == {"Alive", "Suspect", "Dead"}

localID == "n1"

Member(status, inc) == [Status |-> status, Incarnation |-> inc]

\* notifyMembershipChanged, called with m.mu write-locked: with a callback set
\* it calls AliveNodes, which read-locks m.mu again and never returns, so the
\* callback is not started; rebuilds lists the callbacks started.
notifyMembershipChanged(m) ==
    IF m.callback THEN [m EXCEPT !.mu = "blocked"] ELSE m

\* NewMembership followed by AddSeedMembers, before any callback is set.
NewMembership(seeds, callback) ==
    [enabled |-> TRUE,
     members |-> [id \in {localID} \cup seeds |-> Member("Alive", 1)],
     incarnation |-> [id \in {localID} \cup seeds |-> 1],
     callback |-> callback,
     mu |-> "free",
     probing |-> "",
     rebuilds |-> <<>>,
     last |-> [op |-> "", from |-> "", records |-> <<>>,
               before |-> [id \in {localID} \cup seeds |-> Member("Alive", 1)]]]

shouldUpdateStatusAlways(local, remote) == TRUE

shouldUpdateStatus(local, remote) ==
    \/ remote = "Alive" /\ local # "Alive"
    \/ remote = "Suspect" /\ local = "Dead"

SetMember(m, id, status, inc) ==
    [m EXCEPT !.members = [x \in DOMAIN m.members \cup {id} |->
                              IF x = id THEN Member(status, inc) ELSE m.members[x]]]

\* An update of the member record that leaves the incarnation map alone.
SetIncarnationForgotten(m, id, inc) == m

SetIncarnation(m, id, inc) ==
    [m EXCEPT !.incarnation = [x \in DOMAIN m.incarnation \cup {id} |->
                                  IF x = id THEN inc ELSE m.incarnation[x]]]

\* A merge that takes the received record whenever the incarnations differ.
MergeRecordLatest(m, remote) ==
    IF remote.ID = localID THEN <<m, FALSE>>
    ELSE IF remote.ID \in DOMAIN m.members
            /\ remote.Incarnation = m.members[remote.ID].Incarnation
    THEN <<m, FALSE>>
    ELSE <<SetIncarnation(SetMember(m, remote.ID, remote.Status, remote.Incarnation),
                          remote.ID, remote.Incarnation), TRUE>>

\* A merge that applies the records about the node itself as well.
MergeRecordIncludingSelf(m, remote) ==
    IF remote.ID \notin DOMAIN m.members
    THEN <<SetIncarnation(SetMember(m, remote.ID, remote.Status, remote.Incarnation),
                          remote.ID, remote.Incarnation), TRUE>>
    ELSE LET local == m.members[remote.ID] IN
         IF remote.Incarnation > local.Incarnation
         THEN <<SetIncarnation(SetMember(m, remote.ID, remote.Status, remote.Incarnation),
                               remote.ID, remote.Incarnation), TRUE>>
         ELSE IF remote.Incarnation = local.Incarnation
                 /\ shouldUpdateStatus(local.Status, remote.Status)
         THEN <<SetMember(m, remote.ID, remote.Status, local.Incarnation), TRUE>>
         ELSE <<m, FALSE>>

\* One iteration of the loop of ApplyGossip: <<table, changed>>.
MergeRecord(m, remote) ==
    IF remote.ID = localID THEN <<m, FALSE>>
    ELSE IF remote.ID \notin DOMAIN m.members
    THEN <<SetIncarnation(SetMember(m, remote.ID, remote.Status, remote.Incarnation),
                          remote.ID, remote.Incarnation), TRUE>>
    ELSE LET local == m.members[remote.ID] IN
         IF remote.Incarnation > local.Incarnation
         THEN <<SetIncarnation(SetMember(m, remote.ID, remote.Status, remote.Incarnation),
                               remote.ID, remote.Incarnation), TRUE>>
         ELSE IF remote.Incarnation = local.Incarnation
                 /\ shouldUpdateStatus(local.Status, remote.Status)
         THEN <<SetMember(m, remote.ID, remote.Status, local.Incarnation), TRUE>>
         ELSE <<m, FALSE>>

RECURSIVE ApplyGossipFrom(_, _, _, _)
ApplyGossipFrom(m, remoteMembers, i, changed) ==
    IF i > Len(remoteMembers)
    THEN IF changed THEN notifyMembershipChanged(m) ELSE m
    ELSE LET step == MergeRecord(m, remoteMembers[i])
         IN  ApplyGossipFrom(step[1], remoteMembers, i + 1, changed \/ step[2])

ApplyGossip(m, remoteMembers) == ApplyGossipFrom(m, remoteMembers, 1, FALSE)

MarkAlive(m, id) ==
    IF id \in DOMAIN m.members /\ m.members[id].Status # "Alive"
    THEN notifyMembershipChanged(
             SetMember(m, id, "Alive", m.members[id].Incarnation))
    ELSE m

AliveNodes(m) == {id \in DOMAIN m.members : m.members[id].Status = "Alive"}

\* last: the latest call, its arguments and the table it found.
Logged(m, op, from, records) ==
    [m EXCEPT !.last = [op |-> op, from |-> from, records |-> records,
                        before |-> membership.members]]

MembershipStep(m) ==
    /\ membership.enabled
    /\ membership.mu = "free"
    /\ membership' = m
    /\ UNCHANGED <<store, reqs, failures, quorums, rings, pure>>

\* probe: the target is picked among the Alive peers under the read lock.
ProbeStart(target) ==
    /\ membership.enabled
    /\ membership.probing = ""
    /\ target \in AliveNodes(membership) \ {localID}
    /\ MembershipStep(Logged([membership EXCEPT !.probing = target],
                             "probe", target, <<>>))

\* probe: probeFn returned nil.
ProbeOk ==
    LET m == membership
        t == m.probing
        inc == IF m.members[t].Incarnation < m.incarnation[t]
               THEN m.incarnation[t] ELSE m.members[t].Incarnation
    IN  /\ m.enabled
        /\ t # ""
        /\ MembershipStep(Logged(
               notifyMembershipChanged(
                   [SetMember(m, t, "Alive", inc) EXCEPT !.probing = ""]),
               "probeOk", t, <<>>))

\* probe: probeFn returned an error.
ProbeFail ==
    LET m == membership
        t == m.probing
        done == [m EXCEPT !.probing = ""]
    IN  /\ m.enabled
        /\ t # ""
        /\ m.members[t].Status = "Alive" => m.incarnation[t] < MaxIncarnation
        /\ MembershipStep(Logged(
               IF m.members[t].Status = "Alive"
               THEN notifyMembershipChanged(
                        SetMember(SetIncarnation(done, t, m.incarnation[t] + 1),
                                  t, "Suspect", m.incarnation[t] + 1))
               ELSE done,
               "probeFail", t, <<>>))

\* A sweep that declares a silent member Dead whatever its status.
CheckTimeoutsAnyStatus(id) ==
    LET m == membership IN
    /\ m.enabled
    /\ id \in DOMAIN m.members \ {localID}
    /\ m.incarnation[id] < MaxIncarnation
    /\ MembershipStep(Logged(
           notifyMembershipChanged(
               SetMember(SetIncarnation(m, id, m.incarnation[id] + 1),
                         id, "Dead", m.incarnation[id] + 1)),
           "checkTimeouts", id, <<>>))

\* checkTimeouts at a moment when exactly the Suspect member id has been
\* silent for longer than suspectTimeout.
CheckTimeouts(id) ==
    LET m == membership IN
    /\ m.enabled
    /\ id \in DOMAIN m.members \ {localID}
    /\ m.members[id].Status = "Suspect"
    /\ m.incarnation[id] < MaxIncarnation
    /\ MembershipStep(Logged(
           notifyMembershipChanged(
               SetMember(SetIncarnation(m, id, m.incarnation[id] + 1),
                         id, "Dead", m.incarnation[id] + 1)),
           "checkTimeouts", id, <<>>))

\* AddSeedMembers called on the running membership.
AddSeedMembers(seeds) ==
    LET m == membership
        new == seeds \ (DOMAIN m.members \cup {localID})
        ids == DOMAIN m.members \cup new
    IN  /\ m.enabled
        /\ MembershipStep(Logged(
               notifyMembershipChanged(
                   [m EXCEPT !.members = [id \in ids |->
                                 IF id \in new THEN Member("Alive", 1) ELSE m.members[id]],
                             !.incarnation = [id \in ids |->
                                 IF id \in new THEN 1 ELSE m.incarnation[id]]]),
               "AddSeedMembers", "", <<>>))

\* gossip: the whole table, the node's own record included, is sent as it
\* stands to a member picked at random; the records go out in the order of
\* the iteration over m.members, which is any order.
GossipSend(target, order) ==
    LET m == membership IN
    /\ m.enabled
    /\ target \in DOMAIN m.members \ {localID}
    /\ Len(order) = Cardinality(DOMAIN m.members)
    /\ {order[i] : i \in 1..Len(order)} = DOMAIN m.members
    /\ MembershipStep(Logged(m, "gossip", target,
           [i \in 1..Len(order) |->
               [ID |-> order[i], Status |-> m.members[order[i]].Status,
                Incarnation |-> m.members[order[i]].Incarnation]]))

\* Server.Gossip.
GossipRpc(from, records) ==
    /\ membership.enabled
    /\ MembershipStep(Logged(ApplyGossip(membership, records),
                             "Gossip", from, records))

\* Server.Ping: MarkAlive(from), then ApplyGossip of the piggybacked table.
PingRpc(from, records) ==
    LET marked == MarkAlive(membership, from)
    IN  /\ membership.enabled
        /\ MembershipStep(Logged(
               IF marked.mu = "free" /\ Len(records) > 0
               THEN ApplyGossip(marked, records) ELSE marked,
               "Ping", from, records))

GossipMessages ==
    UNION {[1..n -> [ID : Nodes, Status : Statuses, Incarnation : 1..MaxIncarnation]] :
              n \in 1..MaxGossip}

\* A node started with seeds (callback set by NewNode), and a Membership used
\* on its own without callback, with and without seeds.
Memberships ==
    {NewMembership((Nodes \ {localID}), TRUE), NewMembership({}, FALSE),
     NewMembership({"n2"}, FALSE)}

InitGossip ==
    /\ Cluster({<<DefaultR, DefaultW>>}, {localID}, 0, 0, 0)
    /\ membership \in Memberships
    /\ rings = NoRings
    /\ clocks = NoClocks
    /\ versions = NoVersions

NextGossip ==
    \/ \E target \in (Nodes \ {localID}) : ProbeStart(target)
    \/ ProbeOk
    \/ ProbeFail
    \/ \E id \in (Nodes \ {localID}) : CheckTimeouts(id)
    \/ \E from \in (Nodes \ {localID}), records \in GossipMessages : GossipRpc(from, records)
    \/ \E from \in (Nodes \ {localID}), records \in GossipMessages \cup {<<>>} :
          PingRpc(from, records)
    \/ \E seeds \in SUBSET (Nodes \ {localID}) : AddSeedMembers(seeds)
    \/ \E target \in (Nodes \ {localID}),
          order \in UNION {[1..n -> Nodes] : n \in 1..Cardinality(Nodes)} :
          GossipSend(target, order)

SpecGossip == InitGossip /\ [][NextGossip]_vars

(***************************************************************************)
(* The consistent-hash ring.  Strings are sequences of bytes, and a uint32 *)
(* is kept as <<high 16 bits, low 16 bits>>.                               *)
(***************************************************************************)
RingNodes == {"bmdk", "dghv", "n1"}

RingKeys == {"key1", "a", "k", "x", ""}

Bytes ==
    [id \in RingNodes \cup RingKeys |->
        CASE id = "bmdk" -> <<98, 109, 100, 107>>
          [] id = "dghv" -> <<100, 103, 104, 118>>
          [] id = "n1"   -> <<110, 49>>
          [] id = "key1" -> <<107, 101, 121, 49>>
          [] id = "a"    -> <<97>>
          [] id = "k"    -> <<107>>
          [] id = "x"    -> <<120>>
          [] id = ""     -> <<>>]

\* fmt.Sprintf("%s-vnode-%d", node.ID, i), for i < 10
vnodeID(nodeID, i) ==
    Bytes[nodeID] \o <<45, 118, 110, 111, 100, 101, 45>> \o <<48 + i>>

RECURSIVE Xor(_, _)
Xor(a, b) ==
    IF a = 0 THEN b
    ELSE IF b = 0 THEN a
    ELSE ((a + b) % 2) + 2 * Xor(a \div 2, b \div 2)

\* FNV-1a: offset32 = 2166136261 = 0x811C9DC5, prime32 = 16777619 = 0x01000193
offset32 == <<33052, 40389>>

prime32 == <<256, 403>>

Mul32(h, p) ==
    LET lo == h[2] * p[2]
        hi == h[1] * p[2] + h[2] * p[1] + lo \div 65536
    IN  <<hi % 65536, lo % 65536>>

RECURSIVE hashFrom(_, _, _)
hashFrom(bytes, i, h) ==
    IF i > Len(bytes) THEN h
    ELSE hashFrom(bytes, i + 1, Mul32(<<h[1], Xor(h[2], bytes[i])>>, prime32))

hashString(bytes) == hashFrom(bytes, 1, offset32)

HashLess(g, h) == g[1] < h[1] \/ (g[1] = h[1] /\ g[2] < h[2])

VnodeHash ==
    [nodeID \in RingNodes, i \in 0..(MaxVnodes - 1) |-> hashString(vnodeID(nodeID, i))]

NewRing(vnodesPerNode) ==
    [vnodesPerNode |-> IF vnodesPerNode <= 0 THEN 128 ELSE vnodesPerNode,
     vnodes |-> <<>>,
     nodes |-> {}]

InsertAt(seq, idx, v) ==
    SubSeq(seq, 1, idx - 1) \o <<v>> \o SubSeq(seq, idx, Len(seq))

\* sort.Slice on at most 12 elements is an insertion sort: an element moves
\* left only past elements of strictly greater hash.
RECURSIVE SortFrom(_, _)
SortFrom(sorted, rest) ==
    IF rest = <<>> THEN sorted
    ELSE LET v == Head(rest)
             after == {j \in 1..Len(sorted) : ~HashLess(v.hash, sorted[j].hash)}
             idx == IF after = {} THEN 1
                    ELSE (CHOOSE j \in after : \A l \in after : l <= j) + 1
         IN  SortFrom(InsertAt(sorted, idx, v), Tail(rest))

\* sort.Search: the first position whose hash is >= h, Len + 1 if none.
Search(vnodes, h) ==
    LET at == {j \in 1..Len(vnodes) : ~HashLess(vnodes[j].hash, h)}
    IN  IF at = {} THEN Len(vnodes) + 1
        ELSE CHOOSE j \in at : \A l \in at : j <= l

VnodesOf(r, nodeID) ==
    [i \in 1..r.vnodesPerNode |-> [hash |-> VnodeHash[nodeID, i - 1], nodeID |-> nodeID]]

RECURSIVE AppendVnodes(_, _, _)
AppendVnodes(r, nodes, i) ==
    IF i > Len(nodes) THEN <<>>
    ELSE VnodesOf(r, nodes[i]) \o AppendVnodes(r, nodes, i + 1)

SetNodes(r, nodes) ==
    [r EXCEPT !.nodes = Range(nodes),
              !.vnodes = SortFrom(<<>>, AppendVnodes(r, nodes, 1))]

RECURSIVE InsertVnodes(_, _, _)
InsertVnodes(vnodes, new, i) ==
    IF i > Len(new) THEN vnodes
    ELSE InsertVnodes(InsertAt(vnodes, Search(vnodes, new[i].hash), new[i]), new, i + 1)

AddNode(r, nodeID) ==
    IF nodeID \in r.nodes THEN r
    ELSE [r EXCEPT !.nodes = @ \cup {nodeID},
                   !.vnodes = InsertVnodes(@, VnodesOf(r, nodeID), 1)]

\* RemoveNode that forgets the node and keeps its vnodes.
RemoveNodeKeepingVnodes(r, nodeID) ==
    IF nodeID \notin r.nodes THEN r
    ELSE [r EXCEPT !.nodes = @ \ {nodeID}]

RemoveNode(r, nodeID) ==
    IF nodeID \notin r.nodes THEN r
    ELSE [r EXCEPT !.nodes = @ \ {nodeID},
                   !.vnodes = SelectSeq(@, LAMBDA v : v.nodeID # nodeID)]

\* The position the walk starts from, wrapped around.
StartIdx(r, key) ==
    LET idx == Search(r.vnodes, hashString(Bytes[key]))
    IN  IF idx > Len(r.vnodes) THEN 1 ELSE idx

ResponsibleNode(r, key) ==
    IF Len(r.vnodes) = 0 THEN [ID |-> "", found |-> FALSE]
    ELSE LET nodeID == r.vnodes[StartIdx(r, key)].nodeID
         IN  [ID |-> nodeID, found |-> nodeID \in r.nodes]

RECURSIVE WalkRepeating(_, _, _, _, _)
WalkRepeating(r, idx, i, k, result) ==
    IF i >= Len(r.vnodes) \/ Len(result) >= k THEN result
    ELSE LET nodeID == r.vnodes[(((idx - 1) + i) % Len(r.vnodes)) + 1].nodeID
         IN  WalkRepeating(r, idx, i + 1, k,
                 IF nodeID \in r.nodes
                 THEN Append(result, nodeID) ELSE result)

RECURSIVE Walk(_, _, _, _, _)
Walk(r, idx, i, k, result) ==
    IF i >= Len(r.vnodes) \/ Len(result) >= k THEN result
    ELSE LET nodeID == r.vnodes[(((idx - 1) + i) % Len(r.vnodes)) + 1].nodeID
         IN  Walk(r, idx, i + 1, k,
                 IF nodeID \notin Range(result) /\ nodeID \in r.nodes
                 THEN Append(result, nodeID) ELSE result)

\* Ring.PreferenceList
RingPreferenceList(r, key, k) ==
    IF Len(r.vnodes) = 0 \/ k <= 0 THEN <<>>
    ELSE Walk(r, StartIdx(r, key), 0, k, <<>>)

\* The lists of distinct nodes that membership and NewNode pass to SetNodes.
NodeLists ==
    {nodes \in UNION {[1..n -> RingNodes] : n \in 0..Cardinality(RingNodes)} :
        \A a, b \in DOMAIN nodes : nodes[a] = nodes[b] => a = b}

RingCall(i, op, r) ==
    /\ rings' = [rings EXCEPT ![i] = [ring |-> r, op |-> op]]
    /\ UNCHANGED <<store, reqs, failures, quorums, membership, pure>>

CallSetNodes(i, nodes) == RingCall(i, "SetNodes", SetNodes(rings[i].ring, nodes))

CallAddNode(i, nodeID) ==
    RingCall(i, "AddNode", AddNode(rings[i].ring, nodeID))

CallRemoveNode(i, nodeID) ==
    RingCall(i, "RemoveNode", RemoveNode(rings[i].ring, nodeID))

InitRing ==
    /\ Cluster({<<DefaultR, DefaultW>>}, {"n1"}, 0, 0, 0)
    /\ membership = NoMembership
    /\ clocks = NoClocks
    /\ versions = NoVersions
    /\ rings \in [1..2 -> {[ring |-> NewRing(v), op |-> "NewRing"] :
                              v \in 1..MaxVnodes}]

NextRing ==
    \E i \in 1..2 :
        \/ \E nodes \in NodeLists : CallSetNodes(i, nodes)
        \/ \E nodeID \in RingNodes : CallAddNode(i, nodeID)
        \/ \E nodeID \in RingNodes : CallRemoveNode(i, nodeID)

SpecRing == InitRing /\ [][NextRing]_vars

(***************************************************************************)
(* Vector clocks built by calls of the clock package: clocks holds two     *)
(* clocks, the last call, the clock it was made on and that clock's value  *)
(* before the call.                                                        *)
(***************************************************************************)
ClockCall(i, op, vc) ==
    /\ clocks # NoClocks
    /\ clocks' = [vc |-> [clocks.vc EXCEPT ![i] = vc], op |-> op, on |-> i,
                  before |-> clocks.vc[i]]
    /\ UNCHANGED <<store, reqs, failures, quorums, membership, rings, versions>>

CallIncrement(i, nodeID) ==
    /\ clocks # NoClocks
    /\ Get(clocks.vc[i], nodeID) < MaxCounter
    /\ ClockCall(i, "Increment", Increment(clocks.vc[i], nodeID))

CallMerge(i, j) ==
    /\ clocks # NoClocks
    /\ i # j
    /\ ClockCall(i, "Merge", Merge(clocks.vc[i], clocks.vc[j]))

CallSet(i, nodeID, value) ==
    /\ clocks # NoClocks
    /\ ClockCall(i, "Set", Set(clocks.vc[i], nodeID, value))

InitClock ==
    /\ Cluster({<<DefaultR, DefaultW>>}, {"n1"}, 0, 0, 0)
    /\ membership = NoMembership
    /\ rings = NoRings
    /\ versions = NoVersions
    /\ clocks = [vc |-> <<New, New>>, op |-> "New", on |-> 1, before |-> New]

\* Clocks obtained by increments and merges only.
NextClock ==
    \/ \E i \in 1..2, nodeID \in ClockIDs : CallIncrement(i, nodeID)
    \/ \E i, j \in 1..2 : CallMerge(i, j)

SpecClock == InitClock /\ [][NextClock]_vars

\* Clocks of any content: Set is what a test or a decoded client version does.
NextClockSet ==
    \/ \E i \in 1..2, nodeID \in ClockIDs : CallIncrement(i, nodeID)
    \/ \E i, j \in 1..2 : CallMerge(i, j)
    \/ \E i \in 1..2, nodeID \in ClockIDs, value \in 0..MaxCounter :
          CallSet(i, nodeID, value)

SpecClockSet == InitClock /\ [][NextClockSet]_vars

(***************************************************************************)
(* repair.Reconcile as a function of its arguments: versions holds one     *)
(* call, first with its arguments only, then with its result.              *)
(***************************************************************************)
VersionedValues == [value : {1}, version : BoundedVCs, deleted : BOOLEAN]

ValueLists == UNION {[1..n -> VersionedValues] : n \in 0..MaxValues}

InitReconcile ==
    /\ Cluster({<<DefaultR, DefaultW>>}, {"n1"}, 0, 0, 0)
    /\ membership = NoMembership
    /\ rings = NoRings
    /\ clocks = NoClocks
    /\ \E values \in ValueLists :
          \* the replica ids Server.Get passes, or a list of another length
          \E ids \in {SubSeq(RingOrder, 1, Len(values)), <<"n1">>} :
              versions = [values |-> values, replicaIDs |-> ids, returned |-> FALSE,
                          result |-> Reconcile(<<>>, <<>>)]

CallReconcile ==
    /\ ~versions.returned
    /\ versions' = [versions EXCEPT !.returned = TRUE,
                                    !.result = Reconcile(versions.values, versions.replicaIDs)]
    /\ UNCHANGED <<store, reqs, failures, quorums, membership, rings, clocks>>

SpecReconcile == InitReconcile /\ [][CallReconcile]_vars

(***************************************************************************)
(* ReadRepairer.Repair called with any winners, stale map and address map: *)
(* versions holds the call, the goroutine it started and, per replica, the *)
(* ReplicaPut requests sent to it and how its repair ended.                *)
(***************************************************************************)
\* The request writeVersion sends; it goes out under repairCtx, made from
\* context.Background() with r.timeout, whatever the caller's ctx is.
writeVersion(key, vv) ==
    [Key |-> key, Value |-> vv.value, Version |-> vectorClockToProto(vv.version),
     CoordinatorId |-> "read-repair", Deleted |-> vv.deleted, IsRepair |-> TRUE,
     ctx |-> "Background"]

\* repairReplica that writes the winner found last.
repairReplicaLastWinner(winners) == winners[Len(winners)]

\* The version repairReplica writes: winners[0], for one winner and for more.
repairReplica(winners) == winners[1]

RepairValues ==
    {[value |-> 1, version |-> [id \in {"n1"} |-> 2], deleted |-> FALSE],
     [value |-> 2, version |-> [id \in {"n2"} |-> 1], deleted |-> TRUE]}

\* A stale map is given with at least one winner (Reconcile finds a version
\* stale only Before another); callerDone: the caller's ctx is cancelled.
InitRepair ==
    /\ Cluster({<<DefaultR, DefaultW>>}, {"n1"}, 0, 0, 0)
    /\ membership = NoMembership
    /\ rings = NoRings
    /\ clocks = NoClocks
    /\ \E winners \in UNION {[1..n -> RepairValues] : n \in 0..2},
          staleIDs \in SUBSET Nodes, addrs \in {Nodes, {"n1", "n2"}},
          callerDone \in BOOLEAN :
          /\ staleIDs # {} => winners # <<>>
          /\ versions = [winners |-> winners,
                         stale |-> [id \in staleIDs |->
                                       [value |-> 0, version |-> New, deleted |-> FALSE]],
                         replicaIDToAddr |-> addrs,
                         callerDone |-> callerDone,
                         pc |-> "called",
                         goroutine |-> "none",
                         pending |-> {},
                         rpcs |-> [id \in Nodes |-> <<>>],
                         outcome |-> [id \in Nodes |-> ""]]

RepairStep(v) ==
    /\ versions' = v
    /\ UNCHANGED <<store, reqs, failures, quorums, membership, rings, clocks>>

\* Repair returns at once; with a non-empty stale map it has started the
\* goroutine that walks the map.
Repair ==
    /\ versions.pc = "called"
    /\ RepairStep(IF DOMAIN versions.stale = {}
                  THEN [versions EXCEPT !.pc = "returned"]
                  ELSE [versions EXCEPT !.pc = "returned", !.goroutine = "running",
                                        !.pending = DOMAIN versions.stale])

\* One iteration of the goroutine's loop over the stale map, in any order:
\* no address, no client from the provider, or one ReplicaPut that succeeds
\* or fails.
RepairOne(id, outcome) ==
    /\ versions.goroutine = "running"
    /\ id \in versions.pending
    /\ RepairStep(
           IF id \notin versions.replicaIDToAddr
           THEN [versions EXCEPT !.pending = @ \ {id}, !.outcome[id] = "skipped"]
           ELSE IF outcome = "noclient"
           THEN [versions EXCEPT !.pending = @ \ {id}, !.outcome[id] = outcome]
           ELSE [versions EXCEPT
                    !.pending = @ \ {id}, !.outcome[id] = outcome,
                    !.rpcs[id] = Append(@, writeVersion("k", repairReplica(versions.winners)))])

\* The goroutine has walked the whole map.
RepairDone ==
    /\ versions.goroutine = "running"
    /\ versions.pending = {}
    /\ RepairStep([versions EXCEPT !.goroutine = "done"])

NextRepair ==
    \/ Repair
    \/ \E id \in Nodes, outcome \in {"noclient", "ok", "err"} : RepairOne(id, outcome)
    \/ RepairDone

SpecRepair == InitRepair /\ [][NextRepair]_vars

(***************************************************************************)
(* Properties of the coordinator.                                          *)
(***************************************************************************)
FannedOut(r) == DOMAIN r.rstate # {}

Succeeded(i) == reqs[i].pc = "returned" /\ reqs[i].resp.status = "SUCCESS"

PutWithoutContext(i, c) ==
    /\ reqs[i].op = "Put"
    /\ reqs[i].coord = c
    /\ ~reqs[i].ctx.has

RespVC(pbValue) == protoToVectorClock(pbValue.version).vc

\* C1: every replica that applied a successful Put or Delete stored exactly the
\* version the coordinator built (client context plus one increment of the
\* coordinator's id), which is also the version returned to the client.
C1_ReplicasStoreCoordinatorVC ==
    \A i \in 1..Len(reqs) :
        (IsWrite(reqs[i]) /\ Succeeded(i)) =>
            /\ RespVC(reqs[i].resp) = reqs[i].newVersion
            /\ \A n \in DOMAIN reqs[i].rstate :
                  reqs[i].rstate[n] = "ok" =>
                      Equal(reqs[i].stored[n], reqs[i].newVersion)

\* C2: on a healthy cluster with R = W = 2, after n1 completed a Put without
\* version context on a key never written before, a Get returns SUCCESS with
\* the single value written, version {n1:1}, and no conflicts.
C2_GetAfterFirstPut ==
    \A g \in 2..Len(reqs) :
        ( /\ PutWithoutContext(1, "n1") /\ Succeeded(1)
          /\ \A m \in 2..g : reqs[m].op = "Get"
          /\ reqs[g].pc = "returned" ) =>
            /\ reqs[g].resp.status = "SUCCESS"
            /\ reqs[g].resp.hasValue
            /\ reqs[g].resp.value.value = reqs[1].value
            /\ RespVC(reqs[g].resp.value) = [id \in {"n1"} |-> 1]
            /\ reqs[g].resp.conflicts = <<>>

\* C3: with no failure and no concurrent writer, a successful Put followed by
\* a successful Delete makes the next Get return NOT_FOUND.
C3_GetAfterDeleteNotFound ==
    ( /\ Len(reqs) >= 3
      /\ reqs[1].op = "Put" /\ Succeeded(1)
      /\ reqs[2].op = "Delete" /\ Succeeded(2)
      /\ reqs[3].op = "Get" /\ reqs[3].pc = "returned" ) =>
        reqs[3].resp.status = "NOT_FOUND"

\* C4: a Get whose replica reads all answered not-found (none failed) returns
\* NOT_FOUND.
C4_AllNotFoundIsNotFound ==
    \A g \in 1..Len(reqs) :
        ( /\ reqs[g].op = "Get"
          /\ reqs[g].pc = "returned"
          /\ ~reqs[g].cancelled
          /\ FannedOut(reqs[g])
          /\ \A n \in DOMAIN reqs[g].rstate : reqs[g].rstate[n] = "notfound" ) =>
            reqs[g].resp.status = "NOT_FOUND"

SiblingValues(resp) == {resp.conflicts[k].value : k \in 1..Len(resp.conflicts)}

Writes == {i \in 1..Len(reqs) : IsWrite(reqs[i])}

\* C5: after n1 and n2 each completed a Put on the key without version
\* context, a Get returns SUCCESS with a conflicts list that holds a sibling
\* for each of the two values written.
C5_ConcurrentPutsBothKept ==
    \A a, b, g \in 1..Len(reqs) :
        ( /\ PutWithoutContext(a, "n1") /\ Succeeded(a)
          /\ PutWithoutContext(b, "n2") /\ Succeeded(b)
          /\ Writes = {a, b}
          /\ reqs[g].op = "Get" /\ reqs[g].pc = "returned"
          /\ {a, b} \subseteq reqs[g].after ) =>
            /\ reqs[g].resp.status = "SUCCESS"
            /\ {reqs[a].value, reqs[b].value} \subseteq SiblingValues(reqs[g].resp)

HasSiblings(g) ==
    /\ reqs[g].op = "Get"
    /\ Succeeded(g)
    /\ Len(reqs[g].resp.conflicts) >= 2

ResolvingPut(p, g) ==
    /\ p = g + 1
    /\ p <= Len(reqs)
    /\ reqs[p].op = "Put"
    /\ reqs[p].ctx = ContextOf(reqs[g].resp)
    /\ Succeeded(p)

DominatesSiblings(p, g) ==
    \A k \in 1..Len(reqs[g].resp.conflicts) :
        Compare(reqs[p].newVersion, RespVC(reqs[g].resp.conflicts[k])) = "After"

\* C6: a Put whose version context is the pointwise max of all sibling
\* versions of the preceding Get is assigned a version After every sibling,
\* and the next Get returns that single value with no conflicts.
C6_ResolvedAfterContextPut ==
    \A g \in 1..Len(reqs) :
        (HasSiblings(g) /\ ResolvingPut(g + 1, g)) =>
            /\ DominatesSiblings(g + 1, g)
            /\ ( /\ g + 2 <= Len(reqs)
                 /\ reqs[g + 2].op = "Get"
                 /\ reqs[g + 2].pc = "returned" ) =>
                    /\ reqs[g + 2].resp.status = "SUCCESS"
                    /\ reqs[g + 2].resp.hasValue
                    /\ reqs[g + 2].resp.value.value = reqs[g + 1].value
                    /\ reqs[g + 2].resp.conflicts = <<>>

\* C7: DoWrite and DoRead return success exactly when the positive results
\* counted at the moment of return reach the required quorum.
C7_SuccessIffQuorum ==
    \A i \in 1..Len(reqs) :
        (reqs[i].pc = "returned" /\ FannedOut(reqs[i])) =>
            (reqs[i].result.success <=> reqs[i].result.count >= reqs[i].required)

QuorumReached(i) ==
    IF IsWrite(reqs[i]) THEN reqs[i].acks >= reqs[i].required
    ELSE reqs[i].responses >= reqs[i].required

\* C8: a running call whose positive count has reached the quorum can return
\* at once, whether or not other per-replica operations are still running.
C8_ReturnsOnceQuorumReached ==
    \A i \in 1..Len(reqs) :
        (i \in Running /\ QuorumReached(i)) =>
            ENABLED (WriteDone(i) \/ ReadDone(i))

RpcFailed(r) == {n \in DOMAIN r.rstate : r.rstate[n] = "err"}

\* The key holds a value: a Put succeeded before the request arrived and no
\* Delete was ever issued.
KeyExists(i) ==
    /\ \E p \in reqs[i].after :
           reqs[p].op = "Put" /\ reqs[p].key = reqs[i].key /\ Succeeded(p)
    /\ \A d \in 1..Len(reqs) : reqs[d].op # "Delete"

\* C9: a Put or Delete in which at most N-W per-replica operations failed by
\* RPC error, and a Get of an existing key in which at most N-R did, returns
\* SUCCESS.
C9_ToleratesReplicaErrors ==
    \A i \in 1..Len(reqs) :
        LET r == reqs[i] IN
        ( /\ r.pc = "returned" /\ FannedOut(r) /\ ~r.cancelled
          /\ Cardinality(RpcFailed(r)) <= Len(r.replicas) - r.required
          /\ (IsWrite(r) \/ KeyExists(i)) ) =>
            r.resp.status = "SUCCESS"

Included(resp) == IF resp.hasValue THEN <<resp.value>> ELSE resp.conflicts

AtLeast(vc, other) == Compare(vc, other) \in {"After", "Equal"}

\* Get g met its read quorum and arrived after Put p on the same key had
\* returned success, under a configuration with R + W > N.
QuorumGetAfterPut(g, p) ==
    /\ reqs[p].op = "Put" /\ Succeeded(p)
    /\ reqs[g].op = "Get" /\ reqs[g].key = reqs[p].key
    /\ p \in reqs[g].after
    /\ reqs[g].pc = "returned" /\ reqs[g].result.success
    /\ defaultR + defaultW > Len(reqs[g].replicas)

ReturnsAtLeast(g, p) ==
    \E k \in 1..Len(Included(reqs[g].resp)) :
        AtLeast(RespVC(Included(reqs[g].resp)[k]), RespVC(reqs[p].resp))

ReadTombstoneAtLeast(g, p) ==
    \E k \in 1..Len(reqs[g].values) :
        /\ reqs[g].values[k].deleted
        /\ AtLeast(reqs[g].values[k].version, RespVC(reqs[p].resp))

Reconciled(g) ==
    Reconcile(reqs[g].values,
              [i \in 1..Len(reqs[g].values) |-> IndexReplicaID(i, reqs[g].replicas)])

StaleReplicas(g) == DOMAIN Reconciled(g).Stale

\* C11: a quorum Get whose reconciliation finds a replica strictly Before a
\* winner hands that replica to the read repairer when it answers the client.
C11_StaleReplicasHandedToRepair ==
    \A g \in 1..Len(reqs) :
        (reqs[g].op = "Get" /\ reqs[g].pc = "returned" /\ reqs[g].result.success) =>
            StaleReplicas(g) \subseteq reqs[g].repairs

CoordinatorReplicas(key) == Range(GetReplicasForKey(key, replicationFactor))

\* C13: on a node with the rebuild callback set, a member that is Suspect or
\* Dead in the membership table, once every ring rebuild started for the
\* status change has run, is in no preference list the coordinator uses for
\* Put, Get or Delete.
C13_NotAliveNotInPreferenceList ==
    (membership.enabled /\ membership.callback) =>
        \A id \in DOMAIN membership.members \ {localID}, key \in Keys :
            (membership.members[id].Status \in {"Suspect", "Dead"}
                /\ membership.rebuilds = <<>>) =>
                id \notin CoordinatorReplicas(key)

SameRing(i, j) ==
    /\ rings[i].op = "SetNodes" /\ rings[j].op = "SetNodes"
    /\ rings[i].ring.vnodesPerNode = rings[j].ring.vnodesPerNode
    /\ rings[i].ring.nodes = rings[j].ring.nodes

\* C14: two rings built by SetNodes with the same vnodes-per-node from the
\* same set of node ids give every key the same owner and the same
\* preference list, whatever the order of the nodes passed to SetNodes.
C14_RingIndependentOfOrder ==
    \A i, j \in DOMAIN rings :
        SameRing(i, j) =>
            \A key \in RingKeys :
                /\ ResponsibleNode(rings[i].ring, key) = ResponsibleNode(rings[j].ring, key)
                /\ \A k \in 1..MaxK :
                      RingPreferenceList(rings[i].ring, key, k)
                          = RingPreferenceList(rings[j].ring, key, k)

NoDuplicates(seq) == \A a, b \in DOMAIN seq : seq[a] = seq[b] => a = b

\* C15: for every ring, key and k > 0, PreferenceList(key, k) holds no
\* physical node twice, has exactly min(k, number of nodes of the ring)
\* elements, and starts with ResponsibleNode(key).
C15_PreferenceListDistinct ==
    \A i \in DOMAIN rings, key \in RingKeys, k \in 1..MaxK :
        LET r == rings[i].ring
            list == RingPreferenceList(r, key, k)
        IN  /\ NoDuplicates(list)
            /\ Len(list) = Min(k, Cardinality(r.nodes))
            /\ r.nodes # {} =>
                  /\ ResponsibleNode(r, key).found
                  /\ list[1] = ResponsibleNode(r, key).ID
            /\ r.nodes = {} => ~ResponsibleNode(r, key).found

\* A ring of three nodes where the walk for key1 meets a second vnode of the
\* owner before it meets another node.
C15_Witness ==
    \E i \in DOMAIN rings :
        LET r == rings[i].ring
            idx == StartIdx(r, "key1")
        IN  /\ Cardinality(r.nodes) = 3
            /\ r.vnodesPerNode = 2
            /\ r.vnodes[idx].nodeID = r.vnodes[(idx % Len(r.vnodes)) + 1].nodeID
            /\ Len(RingPreferenceList(r, "key1", MaxK)) = 3

NotDominated(values, i) ==
    \A j \in 1..Len(values) :
        j # i => Compare(values[i].version, values[j].version) # "Before"

\* C16: the winners of Reconcile are exactly the input versions that are not
\* strictly Before another input version, one representative for each set of
\* versions of Equal clock, and every entry of the stale map is strictly
\* Before at least one winner; tombstones are treated like any other version.
C16_WinnersAreMaximalVersions ==
    (versions # NoVersions /\ versions.returned) =>
        LET values == versions.values
            winners == versions.result.Winners
            stale == versions.result.Stale
        IN  /\ \A w \in 1..Len(winners) :
                  \E i \in 1..Len(values) :
                      values[i] = winners[w] /\ NotDominated(values, i)
            /\ \A i \in 1..Len(values) :
                  NotDominated(values, i) =>
                      \E w \in 1..Len(winners) :
                          Equal(values[i].version, winners[w].version)
            /\ \A a, b \in 1..Len(winners) :
                  Equal(winners[a].version, winners[b].version) => a = b
            /\ \A id \in DOMAIN stale :
                  \E w \in 1..Len(winners) :
                      Compare(stale[id].version, winners[w].version) = "Before"

\* The comparison of two clocks read with every missing id as counter 0.
ComparedWithZeros(vc, other) ==
    LET allNodes == DOMAIN vc \cup DOMAIN other
        less == \E id \in allNodes : Get(vc, id) < Get(other, id)
        greater == \E id \in allNodes : Get(vc, id) > Get(other, id)
    IN  IF ~less /\ ~greater THEN "Equal"
        ELSE IF ~greater THEN "Before"
        ELSE IF ~less THEN "After"
        ELSE "Concurrent"

\* C17: Compare reads an id missing from a clock as counter 0 on both sides:
\* clocks that agree on every id once missing entries are read as 0 compare
\* Equal, and Before, After and Concurrent are decided over the union of the
\* two id sets.
C17_CompareReadsMissingAsZero ==
    clocks # NoClocks =>
        \A i, j \in 1..2 :
            Compare(clocks.vc[i], clocks.vc[j])
                = ComparedWithZeros(clocks.vc[i], clocks.vc[j])

AfterOrEqual(vc, other) == Compare(vc, other) \in {"After", "Equal"}

\* C18: for clocks obtained by increments and merges, compare(a, b) is Before
\* iff compare(b, a) is After, Equal iff Equal, Concurrent iff Concurrent,
\* and the clock obtained by merging b into a is After or Equal to both a
\* and b.
C18_CompareAntisymmetricMergeDominates ==
    clocks # NoClocks =>
        /\ \A i, j \in 1..2 :
              LET a == clocks.vc[i]
                  b == clocks.vc[j]
              IN  /\ Compare(a, b) = "Before" <=> Compare(b, a) = "After"
                  /\ Compare(a, b) = "Equal" <=> Compare(b, a) = "Equal"
                  /\ Compare(a, b) = "Concurrent" <=> Compare(b, a) = "Concurrent"
        /\ clocks.op = "Merge" =>
              /\ AfterOrEqual(clocks.vc[clocks.on], clocks.before)
              /\ AfterOrEqual(clocks.vc[clocks.on], clocks.vc[3 - clocks.on])

\* A clock has just been merged into a clock Concurrent with it.
C18_Witness ==
    /\ clocks # NoClocks
    /\ clocks.op = "Merge"
    /\ Compare(clocks.before, clocks.vc[3 - clocks.on]) = "Concurrent"
    /\ Compare(clocks.vc[clocks.on], clocks.before) = "After"
    /\ Compare(clocks.vc[3 - clocks.on], clocks.vc[clocks.on]) = "Before"

Rank(status) ==
    CASE status = "Alive" -> 3
      [] status = "Suspect" -> 2
      [] status = "Dead" -> 1

\* The table after one received record, as the merge rules state it.
RuleRecord(members, remote) ==
    LET received == [id \in DOMAIN members \cup {remote.ID} |->
                        IF id = remote.ID
                        THEN Member(remote.Status, remote.Incarnation)
                        ELSE members[id]]
    IN  IF remote.ID = localID THEN members
        ELSE IF remote.ID \notin DOMAIN members THEN received
        ELSE IF remote.Incarnation > members[remote.ID].Incarnation THEN received
        ELSE IF remote.Incarnation = members[remote.ID].Incarnation
                /\ Rank(remote.Status) > Rank(members[remote.ID].Status)
        THEN [members EXCEPT ![remote.ID].Status = remote.Status]
        ELSE members

RECURSIVE RuleFrom(_, _, _)
RuleFrom(members, records, i) ==
    IF i > Len(records) THEN members
    ELSE RuleFrom(RuleRecord(members, records[i]), records, i + 1)

\* C19: ApplyGossip, for each received record about a non-self id, inserts
\* an unknown id as received, overwrites status and incarnation of a known id
\* when the remote incarnation is greater, with equal incarnations changes
\* the status only when the remote status ranks higher in Alive > Suspect >
\* Dead, and leaves the record unchanged when the remote incarnation is
\* smaller.
C19_ApplyGossipMergeRules ==
    (membership.enabled /\ membership.last.op = "Gossip") =>
        membership.members = RuleFrom(membership.last.before, membership.last.records, 1)

\* ApplyGossip has just applied an Alive record to a Suspect member of the
\* same incarnation.
C19_Witness ==
    /\ membership.enabled
    /\ membership.last.op = "Gossip"
    /\ \E i \in 1..Len(membership.last.records) :
          LET remote == membership.last.records[i]
              before == membership.last.before
          IN  /\ remote.ID \in DOMAIN before
              /\ before[remote.ID] = Member("Suspect", remote.Incarnation)
              /\ remote.Status = "Alive"
              /\ membership.members[remote.ID] = Member("Alive", remote.Incarnation)
              /\ remote.Incarnation > 1

\* C20: a non-self member recorded as Dead becomes Alive again only through
\* an incoming gossip record for it of strictly greater incarnation: not
\* through an inbound ping, a probe result or a record of equal incarnation.
C20_DeadAliveOnlyByGreaterIncarnation ==
    membership.enabled =>
        \A id \in DOMAIN membership.last.before \ {localID} :
            (membership.last.before[id].Status = "Dead"
                /\ membership.members[id].Status = "Alive") =>
                /\ membership.last.op \in {"Gossip", "Ping"}
                /\ \E i \in 1..Len(membership.last.records) :
                      /\ membership.last.records[i].ID = id
                      /\ membership.last.records[i].Incarnation
                            > membership.last.before[id].Incarnation

NotAliveMembers ==
    {id \in DOMAIN membership.members \ {localID} :
        membership.members[id].Status # "Alive"}

\* C21: with every node up and every message delivered, a node that records
\* a live peer as Suspect or Dead comes to record it Alive after finitely many
\* rounds; for that, the node must at least be able to serve the peer's next
\* ping, which is the call that marks the peer Alive again.
C21_LivePeerCanBeMarkedAlive ==
    membership.enabled =>
        \A id \in NotAliveMembers : ENABLED PingRpc(id, <<>>)

\* C22: for every member id of a node's table, the incarnation of the member
\* record and the per-id incarnation counter never decrease, whatever probe
\* result, timeout sweep, inbound ping, seed insertion or gossip merge the
\* node performs.
C22_IncarnationNeverDecreases ==
    [][membership.enabled =>
          \A id \in DOMAIN membership.members :
              /\ id \in DOMAIN membership'.members
              /\ membership'.members[id].Incarnation >= membership.members[id].Incarnation
              /\ membership'.incarnation[id] >= membership.incarnation[id]]_vars

\* ApplyGossip has just received a record of smaller incarnation than the
\* one held, and has kept the record held.
C22_Witness ==
    /\ membership.enabled
    /\ membership.last.op = "Gossip"
    /\ \E i \in 1..Len(membership.last.records) :
          LET remote == membership.last.records[i]
              before == membership.last.before
          IN  /\ remote.ID \in DOMAIN before \ {localID}
              /\ remote.Incarnation < before[remote.ID].Incarnation
              /\ membership.members[remote.ID] = before[remote.ID]
              /\ membership.incarnation[remote.ID] = before[remote.ID].Incarnation

\* C23: with a membership-changed callback registered, every membership call
\* that detects a change completes and releases m.mu: no goroutine is left
\* waiting for ever for the mutex.
C23_MutexAlwaysReleased ==
    (membership.enabled /\ membership.callback) => membership.mu # "blocked"

EngineCalls == {i \in 1..Len(reqs) : reqs[i].op \in {"Put", "Delete", "Get"}}

\* C24: DoWrite and DoRead fail at once, with no per-replica operation
\* invoked, when the replica list is empty and when the required quorum is
\* larger than the number of replicas.
C24_InvalidQuorumFailsAtOnce ==
    \A i \in EngineCalls :
        (reqs[i].key # ""
            /\ (Len(reqs[i].replicas) = 0 \/ reqs[i].required > Len(reqs[i].replicas))) =>
            /\ reqs[i].pc = "returned"
            /\ ~reqs[i].result.success
            /\ reqs[i].resp.status = "ERROR"
            /\ DOMAIN reqs[i].rstate = {}

\* DoWrite has returned for an empty replica list, and DoRead for a quorum
\* of 3 over 2 replicas.
C24_Witness ==
    /\ \E i \in EngineCalls :
          /\ reqs[i].op = "Put" /\ reqs[i].replicas = <<>>
          /\ reqs[i].resp.error = "no replicas provided"
    /\ \E i \in EngineCalls :
          /\ reqs[i].op = "Get" /\ Len(reqs[i].replicas) = 2 /\ reqs[i].required = 3
          /\ reqs[i].resp.error = "quorum exceeds replica count"

\* C25: a Put, Get or Delete with an empty key, and a ReplicaPut, ReplicaGet
\* or ReplicaDelete with an empty key, returns an error to its caller, leaves
\* every store unchanged and contacts no replica.
C25_EmptyKeyRejected ==
    [][(Len(reqs') = Len(reqs) + 1 /\ reqs'[Len(reqs')].key = "") =>
          /\ store' = store
          /\ reqs'[Len(reqs')].pc = "returned"
          /\ reqs'[Len(reqs')].resp.status = "ERROR"
          /\ reqs'[Len(reqs')].resp.error = "key cannot be empty"
          /\ DOMAIN reqs'[Len(reqs')].rstate = {}]_vars

\* A replica that holds an entry has answered a ReplicaPut with an empty key.
C25_Witness ==
    /\ Len(reqs) = 2
    /\ reqs[1].op = "ReplicaPut" /\ reqs[1].key = "k" /\ reqs[1].coord = "n2"
    /\ reqs[2].op = "ReplicaPut" /\ reqs[2].key = "" /\ reqs[2].coord = "n2"
    /\ reqs[2].resp.status = "ERROR"
    /\ store["n2"].exists /\ store["n2"].version = Increment(New, "n2")

\* C26: a put served by a node's store stores the pointwise maximum of the
\* incoming clock (empty if nil) and the clock of the entry it found (if
\* any), with the node's own counter raised by exactly one, returns a clock
\* equal to the stored one.  (Put writes to Copy(version) only, so the clock
\* the caller passed is the one logged with the call.)
C26_PutMergesAndIncrements ==
    \A n \in Nodes :
        (reqs # <<>> /\ reqs[1].op = "put" /\ reqs[1].node = n) =>
            LET incoming == IF reqs[1].version.has THEN reqs[1].version.vc ELSE New
                existing == IF reqs[1].before.exists THEN reqs[1].before.version ELSE New
                ids == DOMAIN incoming \cup DOMAIN existing \cup {n}
                larger(id) == IF Get(incoming, id) < Get(existing, id)
                              THEN Get(existing, id) ELSE Get(incoming, id)
            IN  /\ store[n].exists
                /\ DOMAIN store[n].version \subseteq ids
                /\ \A id \in ids :
                      Get(store[n].version, id)
                          = larger(id) + (IF id = n THEN 1 ELSE 0)
                /\ reqs[1].ret = store[n].version

\* A put with a clock Concurrent to the stored one has been served.
C26_Witness ==
    /\ reqs # <<>>
    /\ reqs[1].op = "put"
    /\ reqs[1].version.has
    /\ reqs[1].before.exists
    /\ Compare(reqs[1].version.vc, reqs[1].before.version) = "Concurrent"
    /\ reqs[1].ret = store["n1"].version

SelfRumours ==
    {i \in 1..Len(membership.last.records) :
        /\ membership.last.records[i].ID = localID
        /\ membership.last.records[i].Status \in {"Suspect", "Dead"}
        /\ membership.last.records[i].Incarnation <= membership.incarnation[localID]}

\* C28: a node that has received a gossip record saying that it is itself
\* Suspect or Dead, with an incarnation not above its own counter, keeps its
\* own record Alive, and the next gossip it sends carries its own record as
\* Alive with an incarnation raised above the one it had.
C28_SelfRumourRefuted ==
    [][(/\ membership.enabled
        /\ membership.last.op \in {"Gossip", "Ping"}
        /\ SelfRumours # {}
        /\ membership'.last.op = "gossip") =>
          /\ membership.members[localID].Status = "Alive"
          /\ \E i \in 1..Len(membership'.last.records) :
                /\ membership'.last.records[i].ID = localID
                /\ membership'.last.records[i].Status = "Alive"
                /\ membership'.last.records[i].Incarnation
                      > membership.incarnation[localID]]_vars

\* The status changes of non-self members made by the latest call.
StatusChanges ==
    {id \in (DOMAIN membership.last.before \cap DOMAIN membership.members) \ {localID} :
        membership.last.before[id].Status # membership.members[id].Status}

\* The latest call made one of the changes a node makes by its own detection:
\* Alive to Suspect by a failed probe of id, Suspect to Dead by the timeout
\* sweep, Suspect to Alive, Dead to Alive.
LocalChange(id) ==
    LET from == membership.last.before[id].Status
        to == membership.members[id].Status
    IN  \/ from = "Alive" /\ to = "Suspect"
           /\ membership.last.op = "probeFail" /\ membership.last.from = id
        \/ from = "Suspect" /\ to = "Dead"
           /\ membership.last.op = "checkTimeouts" /\ membership.last.from = id
        \/ from = "Suspect" /\ to = "Alive"
        \/ from = "Dead" /\ to = "Alive"

\* The latest call merged a received record for id that carries the status
\* id now has, with a greater incarnation, or with an equal one and a status
\* ranking higher in Alive > Suspect > Dead.
MergedChange(id) ==
    /\ membership.last.op \in {"Gossip", "Ping"}
    /\ \E i \in 1..Len(membership.last.records) :
          LET remote == membership.last.records[i]
              before == membership.last.before[id]
          IN  /\ remote.ID = id
              /\ remote.Status = membership.members[id].Status
              /\ \/ remote.Incarnation > before.Incarnation
                 \/ /\ remote.Incarnation = before.Incarnation
                    /\ <<before.Status, remote.Status>>
                          \in {<<"Suspect", "Alive">>, <<"Dead", "Alive">>,
                               <<"Dead", "Suspect">>}

\* C29 as stated: every status change of a non-self member is Alive to
\* Suspect (on a local probe failure of an Alive peer), Suspect to Alive,
\* Suspect to Dead (by the timeout sweep) or Dead to Alive, and no operation,
\* gossip merge included, moves a member from Alive directly to Dead.
C29_OnlyListedTransitions ==
    membership.enabled => \A id \in StatusChanges : LocalChange(id)

\* C29, amended: every status change of a non-self member is one of the
\* listed changes, or is made by the merge of a received record for the
\* member that carries the new status with a greater incarnation (Alive to
\* Dead included) or with an equal incarnation and a higher-ranking status.
C29_ListedOrMergedTransitions ==
    membership.enabled =>
        \A id \in StatusChanges : LocalChange(id) \/ MergedChange(id)

\* A member that was Alive is Dead after the merge of a Dead record for it,
\* in a table where another member was Dead already.
C29_Witness ==
    /\ membership.enabled
    /\ membership.last.op = "Gossip"
    /\ \E id \in StatusChanges :
          /\ membership.last.before[id].Status = "Alive"
          /\ membership.members[id].Status = "Dead"
    /\ \E id \in DOMAIN membership.members \ {localID} :
          /\ id \notin StatusChanges
          /\ membership.members[id].Status = "Dead"

\* C30: on a node with the rebuild callback set, once every callback started
\* has finished, the nodes of the node's ring are the members that are Alive
\* in its table.
C30_RingIsAliveSet ==
    (membership.enabled /\ membership.callback /\ membership.rebuilds = <<>>) =>
        Range(RingOrder) = AliveNodes(membership)

\* C31: AddNode(n) or RemoveNode(n) on a ring built by SetNodes leaves the
\* sorted vnode sequence (and with it every owner and preference list) that
\* a SetNodes rebuild with the resulting node set and the same vnodes-per-node
\* gives, vnodes of equal hash included.
C31_IncrementalEqualsRebuild ==
    [][\A i, j \in DOMAIN rings :
          (/\ rings[i].op = "SetNodes"
           /\ rings'[i].op \in {"AddNode", "RemoveNode"}
           /\ rings'[i].ring.nodes # rings[i].ring.nodes
           /\ j # i
           /\ rings'[j].op = "SetNodes"
           /\ rings'[j].ring.vnodesPerNode = rings'[i].ring.vnodesPerNode
           /\ rings'[j].ring.nodes = rings'[i].ring.nodes) =>
              /\ rings'[j].ring.vnodes = rings'[i].ring.vnodes
              /\ \A key \in RingKeys :
                    ResponsibleNode(rings'[j].ring, key) = ResponsibleNode(rings'[i].ring, key)]_vars

\* C32: on every ring reached by SetNodes, AddNode and RemoveNode, for every
\* key (the empty key included), ResponsibleNode and PreferenceList return
\* only nodes of the ring's current node set; a ring with nodes returns an
\* owner, and a ring without nodes returns no owner and an empty list.
C32_OnlyCurrentNodesReturned ==
    \A i \in DOMAIN rings :
        LET r == rings[i].ring IN
        \A key \in RingKeys :
            LET owner == ResponsibleNode(r, key) IN
            /\ IF r.nodes = {}
               THEN ~owner.found /\ RingPreferenceList(r, key, MaxK) = <<>>
               ELSE owner.found /\ owner.ID \in r.nodes
            /\ \A k \in 0..MaxK : Range(RingPreferenceList(r, key, k)) \subseteq r.nodes

\* RemoveNode has left a ring of two nodes, which returns both for the empty
\* key, and the other ring is empty.
C32_Witness ==
    /\ rings[1].op = "RemoveNode"
    /\ Cardinality(rings[1].ring.nodes) = 2
    /\ Len(rings[1].ring.vnodes) = 2 * rings[1].ring.vnodesPerNode
    /\ Range(RingPreferenceList(rings[1].ring, "", MaxK)) = rings[1].ring.nodes
    /\ rings[2].op = "RemoveNode"
    /\ rings[2].ring.nodes = {}

\* C33: on vector clocks of any content, zero-valued entries included, merge
\* is commutative, associative and idempotent up to Equal, and Increment
\* yields a clock that compares After the clock it was applied to.
C33_MergeLawsIncrementAdvances ==
    clocks # NoClocks =>
        \A i, j \in 1..2 :
            LET a == clocks.vc[i]
                b == clocks.vc[j]
            IN  /\ Equal(Merge(a, b), Merge(b, a))
                /\ Equal(Merge(a, a), a)
                /\ \A c \in BoundedVCs :
                      Equal(Merge(Merge(a, b), c), Merge(a, Merge(b, c)))
                /\ \A id \in ClockIDs : Compare(Increment(a, id), a) = "After"

\* C34: when a Get returns, every replica id of its stale map is a replica
\* that answered this Get and whose own reply was strictly Before a winner,
\* in whatever order the replies arrived.  (One request runs at a time, so
\* at the return each store still holds what its replica replied.)
C34_StaleMapNamesStaleReplicas ==
    [][\A g \in 1..Len(reqs) :
          (/\ reqs[g].op = "Get"
           /\ reqs[g].pc = "running"
           /\ reqs'[g].pc = "returned"
           /\ reqs'[g].result.success) =>
              \A id \in StaleReplicas(g) :
                  /\ id \in DOMAIN reqs[g].rstate
                  /\ reqs[g].rstate[id] = "ok"
                  /\ \E w \in 1..Len(Reconciled(g).Winners) :
                        Compare(store[id].version, Reconciled(g).Winners[w].version)
                            = "Before"]_vars

C37_WritesFormChain ==
    [][(reqs' # <<>> /\ reqs'[1].op \in {"put", "delete"}) =>
          LET call == reqs'[1]
              n == call.node
          IN  /\ call.before = store[n]
              /\ store'[n].exists
              /\ store[n].exists =>
                    Compare(store'[n].version, store[n].version) = "After"
              /\ (call.op = "put" /\ ~call.version.has) =>
                    Get(store'[n].version, n)
                        = (IF store[n].exists THEN Get(store[n].version, n) ELSE 0) + 1]_vars

\* The second of two puts without version context on a fresh key has been
\* served: the node's counter is 2.
C37_Witness ==
    /\ reqs # <<>>
    /\ reqs[1].op = "put"
    /\ ~reqs[1].version.has
    /\ reqs[1].before.exists
    /\ reqs[1].before.version = Increment(New, "n1")
    /\ store["n1"].version = Increment(Increment(New, "n1"), "n1")

\* C38: in every reachable membership state the node's record of itself is
\* Alive, so the alive set handed to the ring rebuild holds the node itself
\* and is not empty.
C38_SelfAlwaysAlive ==
    membership.enabled =>
        /\ localID \in DOMAIN membership.members
        /\ membership.members[localID].Status = "Alive"
        /\ localID \in AliveNodes(membership)

\* A gossip message saying that the node itself is Dead, with an
\* incarnation above its own, has been served.
C38_Witness ==
    /\ membership.enabled
    /\ membership.last.op = "Gossip"
    /\ \E i \in 1..Len(membership.last.records) :
          /\ membership.last.records[i].ID = localID
          /\ membership.last.records[i].Status = "Dead"
          /\ membership.last.records[i].Incarnation
                > membership.members[localID].Incarnation
    /\ membership.members[localID].Status = "Alive"

\* C39: for every known member id the incarnation of the member record is
\* the entry of the per-id incarnation map, and an id once in the table
\* stays in it (Dead members are kept).
C39_IncarnationMapAgreesNoRemoval ==
    /\ [](membership.enabled =>
             \A id \in DOMAIN membership.members :
                 /\ id \in DOMAIN membership.incarnation
                 /\ membership.members[id].Incarnation = membership.incarnation[id])
    /\ [][membership.enabled =>
             DOMAIN membership.members \subseteq DOMAIN membership'.members]_vars

\* The timeout sweep has declared a member Dead under incarnation 3, and the
\* member is still in the table.
C39_Witness ==
    /\ membership.enabled
    /\ membership.last.op = "checkTimeouts"
    /\ \E id \in DOMAIN membership.members \ {localID} :
          /\ membership.last.from = id
          /\ membership.members[id] = Member("Dead", 3)
          /\ membership.incarnation[id] = 3
====================================================================
